---------------------------- MODULE Spec2Model ----------------------------
(***************************************************************************)
(* Model of projectagricututre.py: a Streamlit script holding a static     *)
(* agriculture knowledge base, a comparator of two knowledge-base entries, *)
(* a free-text intent router and a chat history kept in session state.     *)
(*                                                                         *)
(* Python strings are TLA+ strings; TLC evaluates Len, SubSeq and \o on    *)
(* them, and every string function of the script (lower, strip,            *)
(* startswith, replace, `in`, split, capitalize, sorted) is computed       *)
(* character by character below.  Characters outside ASCII in the source   *)
(* texts (the rupee sign, the long dash, the emoji of the two warnings)    *)
(* are written in ASCII here; no code path inspects them.                  *)
(***************************************************************************)
EXTENDS Integers, Sequences, FiniteSets, TLC

VARIABLES
    messages,     \* st.session_state.messages
    user_input,   \* value held by the text_input widget (key "user_input")
    selected,     \* value held by the selectbox
    trigger,      \* what caused the last script run: "load", "submit", "select"
    route,        \* branch the last run took: "idle", "compare", "usage", "question"
    pair,         \* arguments the last run gave compare_items, << >> if not called
    shown,        \* what the compare branch rendered in the last run
    browse_view,  \* lines the browse section rendered in the last run
    chat_view,    \* lines the chat-history loop rendered in the last run
    llm_called,   \* whether the last run called the chat model
    llm_arg,      \* the message list the last run passed to the chat model
    crashed       \* whether the last run ended by an uncaught exception

vars == << messages, user_input, selected, trigger, route, pair, shown,
           browse_view, chat_view, llm_called, llm_arg, crashed >>

None == "<None>"

----------------------------------------------------------------------------
(* Characters and the Python string methods the script uses.               *)

UpperChars == "ABCDEFGHIJKLMNOPQRSTUVWXYZ"
LowerChars == "abcdefghijklmnopqrstuvwxyz"
\* The characters of the model's texts in code-point order.
AsciiOrder == " -0123456789?ABCDEFGHIJKLMNOPQRSTUVWXYZ_abcdefghijklmnopqrstuvwxyz"

CharAt(s, i) == SubSeq(s, i, i)

IndexIn(c, alphabet) ==
    IF \E i \in 1..Len(alphabet) : CharAt(alphabet, i) = c
    THEN CHOOSE i \in 1..Len(alphabet) : CharAt(alphabet, i) = c
    ELSE 0

Chars == { CharAt(AsciiOrder, i) : i \in 1..Len(AsciiOrder) }

char_lower == [c \in Chars |->
    IF IndexIn(c, UpperChars) > 0 THEN CharAt(LowerChars, IndexIn(c, UpperChars)) ELSE c]

char_upper == [c \in Chars |->
    IF IndexIn(c, LowerChars) > 0 THEN CharAt(UpperChars, IndexIn(c, LowerChars)) ELSE c]

char_ord == [c \in Chars |-> IndexIn(c, AsciiOrder)]

RECURSIVE str_lower(_)
str_lower(s) ==
    IF s = "" THEN "" ELSE char_lower[Head(s)] \o str_lower(Tail(s))

RECURSIVE str_upper(_)
str_upper(s) ==
    IF s = "" THEN "" ELSE char_upper[Head(s)] \o str_upper(Tail(s))

\* str.capitalize(): first character upper-cased, the rest lower-cased.
str_capitalize(s) ==
    IF s = "" THEN "" ELSE char_upper[Head(s)] \o str_lower(Tail(s))

RECURSIVE str_lstrip(_)
str_lstrip(s) ==
    IF s # "" /\ Head(s) = " " THEN str_lstrip(Tail(s)) ELSE s

RECURSIVE str_rstrip(_)
str_rstrip(s) ==
    IF s # "" /\ CharAt(s, Len(s)) = " " THEN str_rstrip(SubSeq(s, 1, Len(s) - 1)) ELSE s

str_strip(s) == str_rstrip(str_lstrip(s))

str_startswith(s, prefix) ==
    Len(s) >= Len(prefix) /\ SubSeq(s, 1, Len(prefix)) = prefix

\* str.find: the first index (1-based) at which sub occurs in s, 0 if nowhere.
str_find(s, sub) ==
    LET hits == { i \in 1..(Len(s) - Len(sub) + 1) : SubSeq(s, i, i + Len(sub) - 1) = sub }
    IN  IF hits = {} THEN 0 ELSE CHOOSE i \in hits : \A j \in hits : i <= j

str_contains(s, sub) == str_find(s, sub) > 0

\* s.replace(old, ""): every non-overlapping occurrence, left to right.
RECURSIVE str_remove_all(_, _)
str_remove_all(s, old) ==
    LET i == str_find(s, old)
    IN  IF i = 0 THEN s
        ELSE SubSeq(s, 1, i - 1) \o str_remove_all(SubSeq(s, i + Len(old), Len(s)), old)

\* s.split(sep, 1) for an s that contains sep.
str_split_once(s, sep) ==
    LET i == str_find(s, sep)
    IN  << SubSeq(s, 1, i - 1), SubSeq(s, i + Len(sep), Len(s)) >>

\* Python's < on strings: lexicographic by code point.
RECURSIVE str_less(_, _)
str_less(a, b) ==
    IF b = "" THEN FALSE
    ELSE IF a = "" THEN TRUE
    ELSE IF Head(a) = Head(b) THEN str_less(Tail(a), Tail(b))
    ELSE char_ord[Head(a)] < char_ord[Head(b)]

\* sorted(set_of_strings)
RECURSIVE sorted(_)
sorted(S) ==
    IF S = {} THEN << >>
    ELSE LET m == CHOOSE x \in S : \A y \in S : y = x \/ str_less(x, y)
         IN  << m >> \o sorted(S \ {m})

----------------------------------------------------------------------------
(* The knowledge base: name -> entry, every entry a dict, both in          *)
(* insertion order.                                                        *)

Wheat == <<
    << "season", "Rabi (October-March)" >>,
    << "soil", "Loamy soil with good drainage" >>,
    << "water", "Moderate irrigation; avoid waterlogging" >>,
    << "sowing", "Mid-Oct to Nov; seed rate 100-125 kg/ha" >>,
    << "fertilizer", "NPK 120:60:40 kg/ha" >>,
    << "harvesting", "March-April when grains are hard and golden" >>,
    << "common_issues", "Rust disease, waterlogging, lodging" >> >>

Rice == <<
    << "season", "Kharif (June-October) or Rabi in some regions" >>,
    << "soil", "Clayey soil with high water retention" >>,
    << "water", "Requires standing water in early stages; good drainage later" >>,
    << "sowing", "Nursery raising and transplanting after 20-25 days" >>,
    << "fertilizer", "Urea, DAP, MOP based on soil test" >>,
    << "harvesting", "Oct-Nov when panicles turn golden, grains hard" >>,
    << "common_issues", "Blast disease, brown planthopper, sheath blight" >> >>

Maize == <<
    << "season", "Both Kharif and Rabi; prefers warm conditions" >>,
    << "soil", "Well-drained loam or silty loam" >>,
    << "water", "Critical irrigation at tasseling and grain filling" >>,
    << "sowing", "June-July (Kharif), seed rate ~20 kg/ha" >>,
    << "fertilizer", "NPK 120:60:40 kg/ha; zinc if deficient" >>,
    << "harvesting", "Cob dries and husk turns brown; Nov-Dec" >>,
    << "common_issues", "Fall armyworm, stem borer, nitrogen deficiency" >> >>

Sugarcane == <<
    << "season", "Planting: Feb-April (spring) or Sept-Oct (autumn)" >>,
    << "soil", "Fertile loam with good drainage and moisture retention" >>,
    << "water", "High water requirement; regular irrigation" >>,
    << "sowing", "Setts (2-3 bud pieces) in furrows; proper spacing" >>,
    << "fertilizer", "High N requirement; split doses with micronutrients" >>,
    << "harvesting", "10-12 months after planting; when brix is optimal" >>,
    << "common_issues", "Red rot, smut, borers" >> >>

GovernmentSchemes == <<
    << "PM-KISAN", "Rs 6,000/year direct benefit to eligible farmers (in installments)." >>,
    << "Soil Health Card", "Soil nutrient profile with fertilizer recommendations." >>,
    << "Kisan Credit Card", "Working capital loans for agriculture at subsidized rates." >> >>

BestPractices == <<
    << "Soil testing", "Test soil every 2-3 years to optimize fertilizer use." >>,
    << "IPM", "Integrated Pest Management - monitor, use traps, bio-control, targeted sprays." >>,
    << "Water management", "Use mulching/drip to reduce water loss and weeds." >>,
    << "Seed quality", "Use certified, high-germination seeds suited to local climate." >> >>

agri_items == <<
    << "Wheat", Wheat >>,
    << "Rice", Rice >>,
    << "Maize", Maize >>,
    << "Sugarcane", Sugarcane >>,
    << "Government Schemes", GovernmentSchemes >>,
    << "Best Practices", BestPractices >> >>

\* dict(items): key -> value
dict_of(items) ==
    [k \in { items[i][1] : i \in 1..Len(items) } |->
        items[CHOOSE i \in 1..Len(items) : items[i][1] = k][2]]

agri_data == [name \in { agri_items[i][1] : i \in 1..Len(agri_items) } |->
    dict_of(agri_items[CHOOSE i \in 1..Len(agri_items) : agri_items[i][1] = name][2])]

\* d.get(k, default)
dict_get(d, k, default) == IF k \in DOMAIN d THEN d[k] ELSE default


----------------------------------------------------------------------------
(* Helpers that format the knowledge base for the chat model.              *)

RECURSIVE format_details(_)
format_details(entry) ==
    IF entry = << >> THEN ""
    ELSE "- " \o str_capitalize(entry[1][1]) \o ": " \o entry[1][2] \o "\n"
         \o format_details(Tail(entry))

RECURSIVE format_agri_info(_)
format_agri_info(data) ==
    IF data = << >> THEN ""
    ELSE "\n\n*" \o data[1][1] \o "*\n" \o format_details(data[1][2])
         \o format_agri_info(Tail(data))

agri_info_text == format_agri_info(agri_items)

system_prompt ==
    "You are a helpful assistant for farmers and agriculture students. "
    \o "Use only the following knowledge base to answer questions about crops, seasons, soil, irrigation, fertilizer, sowing, harvesting, common issues, best practices, and government schemes:\n"
    \o agri_info_text \o "\n"
    \o "Rules:\n"
    \o "- If information is not present above, say 'That information is not available.'\n"
    \o "- Be concise, practical, and use simple language.\n"
    \o "- If the user asks to compare two crops, present a clear, side-by-side comparison of available attributes.\n"

SystemMessage(content) == [role |-> "system", content |-> content]
HumanMessage(content) == [role |-> "user", content |-> content]
AIMessage(content) == [role |-> "assistant", content |-> content]

----------------------------------------------------------------------------
(* Utilities: the name normalizer and the comparator.                      *)

\* Mutant of normalize_name_map: the keys are not lower-cased.
normalize_name_map_cased(keys) == [k \in keys |-> k]

\* Mutant of normalize_name_map: the labels nested in an entry that has neither
\* a season nor a soil also resolve, to the entry that holds them.
normalize_name_map_nested(keys) ==
    LET flat == { k \in keys : "season" \notin DOMAIN agri_data[k] /\ "soil" \notin DOMAIN agri_data[k] }
        nested == { << str_lower(l), k >> : l \in UNION { DOMAIN agri_data[f] : f \in flat }, k \in flat }
        owned == { p \in nested : \E l \in DOMAIN agri_data[p[2]] : str_lower(l) = p[1] }
    IN  [l \in { str_lower(k) : k \in keys } \cup { p[1] : p \in owned } |->
            IF \E k \in keys : str_lower(k) = l
            THEN CHOOSE k \in keys : str_lower(k) = l
            ELSE CHOOSE k \in flat : << l, k >> \in owned]

\* {k.lower(): k for k in keys}; the knowledge-base keys stay distinct when
\* lower-cased, so no entry of the dict is overwritten.
normalize_name_map(keys) ==
    [l \in { str_lower(k) : k \in keys } |-> CHOOSE k \in keys : str_lower(k) = l]

EntryNotFound ==
    [kind |-> "EntryNotFound",
     text |-> "One or both crop names were not found. Please check the names."]

UnsupportedComparison ==
    [kind |-> "UnsupportedComparison",
     text |-> "Comparison is only supported for crop entries."]

\* Mutant of lookup_key: the name is looked up as typed.
lookup_key_exact(name_map, name) == dict_get(name_map, name, None)

\* name_map.get(name.lower())
lookup_key(name_map, name) == dict_get(name_map, str_lower(name), None)

\* `not k` for k a str or None
not_key(k) == k = None \/ k = ""

\* `not d` for d a dict; every entry of agri_data is a dict, so d is the entry
not_dict(d) == DOMAIN d = {}

\* Mutant of comparison_row: the second value is read from the first entry.
comparison_row_same_side(key, d1, d2) ==
    [key |-> key,
     label |-> str_capitalize(key),
     v1 |-> dict_get(d1, key, "N/A"),
     v2 |-> dict_get(d1, key, "N/A")]

\* One line of the comparison: the key as printed (capitalized) and both values.
comparison_row(key, d1, d2) ==
    [key |-> key,
     label |-> str_capitalize(key),
     v1 |-> dict_get(d1, key, "N/A"),
     v2 |-> dict_get(d2, key, "N/A")]

comparison_keys(d1, d2) == sorted((DOMAIN d1) \cup (DOMAIN d2))

\* name_map of compare_items; it depends on agri_data alone, so it is tabulated once.
agri_name_map == << >> @@ normalize_name_map(DOMAIN agri_data)

compare_items(name1, name2) ==
    LET name_map == agri_name_map
        k1 == lookup_key(name_map, name1)
        k2 == lookup_key(name_map, name2)
    IN  IF not_key(k1) \/ not_key(k2) THEN EntryNotFound
        ELSE LET d1 == agri_data[k1]
                 d2 == agri_data[k2]
             IN  IF not_dict(d1) \/ not_dict(d2) THEN UnsupportedComparison
                 ELSE LET keys == comparison_keys(d1, d2)
                      IN  [kind |-> "table",
                           title |-> << k1, k2 >>,
                           rows |-> [i \in 1..Len(keys) |-> comparison_row(keys[i], d1, d2)]]

render_item_details(title, entry) ==
    << title >> \o [i \in 1..Len(entry) |->
        "- *" \o str_capitalize(entry[i][1]) \o ":* " \o entry[i][2]]

----------------------------------------------------------------------------
(* Browse section.                                                         *)

NoSelection == "-- Select --"

crop_like_items ==
    { k \in DOMAIN agri_data : "season" \in DOMAIN agri_data[k] \/ "soil" \in DOMAIN agri_data[k] }

selectbox_options == << NoSelection >> \o sorted(crop_like_items)

items_of(name) == agri_items[CHOOSE i \in 1..Len(agri_items) : agri_items[i][1] = name][2]

browse(sel) ==
    IF sel # NoSelection THEN render_item_details(sel, items_of(sel)) ELSE << >>


----------------------------------------------------------------------------
(* One run of the script from the chat input down: the intent router, the  *)
(* compare branch, the question branch and the chat-history loop.          *)

UsageWarning == [kind |-> "usage", text |-> "Please use: Compare [Crop 1] and [Crop 2]"]

Nothing == [kind |-> "none"]

\* What the chat model does with a call: one of Replies, or LLMError when the
\* call raises (transport, authentication, rate limit).
LLMError == "<raised>"

\* `if x` for x a str or None
truthy(x) == x # None /\ x # ""

\* low.replace("compare", "").strip()
compare_remainder(low) == str_strip(str_remove_all(low, "compare"))

\* p1, p2 of the compare branch
compare_operands(low) ==
    LET temp == compare_remainder(low)
    IN  IF str_contains(temp, " and ") THEN str_split_once(temp, " and ")
        ELSE IF str_contains(temp, " vs ") THEN str_split_once(temp, " vs ")
        ELSE << None, None >>

\* The compare branch: compare_items is called and its text rendered, or the
\* usage warning is; session state is not touched.
compare_branch(low) ==
    LET ps == compare_operands(low)
    IN  IF truthy(ps[1]) /\ truthy(ps[2])
        THEN LET c1 == str_strip(ps[1])
                 c2 == str_strip(ps[2])
             IN  [route |-> "compare", pair |-> << c1, c2 >>, shown |-> compare_items(c1, c2)]
        ELSE [route |-> "usage", pair |-> << >>, shown |-> UsageWarning]

\* The intent router: which branch a text takes, and what the compare branch
\* renders for it.
route_input(text) ==
    IF text = ""
    THEN [route |-> "idle", pair |-> << >>, shown |-> Nothing]
    ELSE LET low == str_strip(str_lower(text))
         IN  IF str_startswith(low, "compare")
             THEN compare_branch(low)
             ELSE [route |-> "question", pair |-> << >>, shown |-> Nothing]

\* The question branch: the user message is appended, the chat model is called
\* with the list, and its reply is appended unless the call raised.
question_branch(msgs, text, llm) ==
    LET sent == Append(msgs, HumanMessage(text))
    IN  IF llm = LLMError
        THEN [messages |-> sent, llm_called |-> TRUE, llm_arg |-> sent, crashed |-> TRUE]
        ELSE [messages |-> Append(sent, AIMessage(llm)),
              llm_called |-> TRUE, llm_arg |-> sent, crashed |-> FALSE]

\* Mutant of no_question: the user message is logged before the text is routed.
no_question_logs_input(msgs, text) ==
    [messages |-> Append(msgs, HumanMessage(text)),
     llm_called |-> FALSE, llm_arg |-> << >>, crashed |-> FALSE]

\* What the branches other than the question branch do to the session.
no_question(msgs, text) ==
    [messages |-> msgs, llm_called |-> FALSE, llm_arg |-> << >>, crashed |-> FALSE]

display_chat_history(msgs) ==
    [i \in 1..(Len(msgs) - 1) |->
        IF msgs[i + 1].role = "user"
        THEN "You:** " \o msgs[i + 1].content
        ELSE "Bot:** " \o msgs[i + 1].content]

----------------------------------------------------------------------------
(* Bounds and inputs of the session.                                       *)

\* Cap on the length of the conversation history.
MaxMsgs == 5

Replies == { "That information is not available.", "Rabi (October-March)" }

LLMOutcomes == Replies \cup { LLMError }

SessionInputs ==
    { "",
      "Best season to grow wheat?",
      " Tell me about PM-KISAN ",
      "Please compare Wheat and Rice",
      "Compare Wheat and Rice",
      "compare wheat vs government schemes",
      "COMPARE rice and Quinoa",
      "compare wheat" }

\* route_input tabulated once over the session's inputs (an explicit function,
\* so that the model checker does not recompute it in every state).
routed_session == << >> @@ [text \in SessionInputs |-> route_input(text)]

routed(text) == IF text \in SessionInputs THEN routed_session[text] ELSE route_input(text)

browse_session == << >> @@
    [i \in 1..Len(selectbox_options) |-> browse(selectbox_options[i])]

----------------------------------------------------------------------------
(* The session: every widget interaction reruns the script top to bottom.  *)

Init ==
    /\ messages = << SystemMessage(system_prompt) >>
    /\ user_input = ""
    /\ selected = NoSelection
    /\ trigger = "load"
    /\ route = "idle"
    /\ pair = << >>
    /\ shown = Nothing
    /\ browse_view = << >>
    /\ chat_view = << >>
    /\ llm_called = FALSE
    /\ llm_arg = << >>
    /\ crashed = FALSE

\* On user submit: the effect of one run on the session, r the router's verdict.
on_user_submit(r, msgs, text, llm) ==
    IF r.route = "question" THEN question_branch(msgs, text, llm) ELSE no_question(msgs, text)

\* A script run with the widgets holding text and option i of the selectbox.
ScriptRun(text, i, trig, llm) ==
    LET r == routed(text)
        e == on_user_submit(r, messages, text, llm)
    IN  /\ Len(e.messages) <= MaxMsgs
        /\ messages' = e.messages
        /\ user_input' = text
        /\ selected' = selectbox_options[i]
        /\ trigger' = trig
        /\ route' = r.route
        /\ pair' = r.pair
        /\ shown' = r.shown
        /\ browse_view' = browse_session[i]
        /\ chat_view' = IF e.crashed THEN << >> ELSE display_chat_history(e.messages)
        /\ llm_called' = e.llm_called
        /\ llm_arg' = e.llm_arg
        /\ crashed' = e.crashed

selected_index == CHOOSE i \in 1..Len(selectbox_options) : selectbox_options[i] = selected

\* The user enters a new text in the text input.
SubmitText ==
    \E text \in SessionInputs, llm \in LLMOutcomes :
        /\ text # user_input
        /\ ScriptRun(text, selected_index, "submit", llm)

\* The user picks another option of the selectbox; the text input keeps its value.
ChangeSelection ==
    \E i \in 1..Len(selectbox_options), llm \in LLMOutcomes :
        /\ selectbox_options[i] # selected
        /\ ScriptRun(user_input, i, "select", llm)

Next == SubmitText \/ ChangeSelection

Spec == Init /\ [][Next]_vars


----------------------------------------------------------------------------
(* The intent router on its own: the first submission of a fresh session,  *)
(* over every text made of at most MaxTokens words of Vocabulary.          *)

MaxTokens == 4

Vocabulary == << "compare ", "Compare", " ", "wheat", "Rice", " and ", " vs " >>

RECURSIVE TokenStrings(_)
TokenStrings(n) ==
    IF n = 0 THEN { "" }
    ELSE LET shorter == TokenStrings(n - 1)
         IN  shorter \cup { t \o Vocabulary[i] : t \in shorter, i \in 1..Len(Vocabulary) }

RouterInputs ==
    TokenStrings(MaxTokens)
        \cup { "Compare Wheat and Rice", "compare wheat vs maize", "compare wheat" }

FirstSubmit ==
    \E text \in RouterInputs, llm \in LLMOutcomes :
        /\ trigger = "load"
        /\ ScriptRun(text, 1, "submit", llm)

SpecRouter == Init /\ [][FirstSubmit]_vars

----------------------------------------------------------------------------
(* The comparator on its own: compare_items applied to a pair of names     *)
(* drawn from the knowledge-base keys, labels nested in flat entries and   *)
(* unknown names, in varied letter case.                                   *)

\* Number of leading characters of a name whose case varies freely.
MaxRecase == 2

BaseNames ==
    { "Wheat", "Rice", "Maize", "Sugarcane", "Government Schemes", "Best Practices",
      "PM-KISAN", "Quinoa" }

RECURSIVE AllCasings(_)
AllCasings(s) ==
    IF s = "" THEN { "" }
    ELSE { c \o t : c \in { char_lower[Head(s)], char_upper[Head(s)] }, t \in AllCasings(Tail(s)) }

Recasings(s) ==
    LET n == IF Len(s) < MaxRecase THEN Len(s) ELSE MaxRecase
        rest == SubSeq(s, n + 1, Len(s))
    IN  { h \o t : h \in AllCasings(SubSeq(s, 1, n)), t \in { rest, str_lower(rest), str_upper(rest) } }

Names == UNION { Recasings(b) : b \in BaseNames } \cup { "", "Wheat " }

InitCompare ==
    /\ messages = << SystemMessage(system_prompt) >>
    /\ user_input = ""
    /\ selected = NoSelection
    /\ trigger = "load"
    /\ route = "idle"
    /\ pair \in Names \X Names
    /\ shown = Nothing
    /\ browse_view = << >>
    /\ chat_view = << >>
    /\ llm_called = FALSE
    /\ llm_arg = << >>
    /\ crashed = FALSE

CallCompare ==
    /\ shown' = compare_items(pair[1], pair[2])
    /\ UNCHANGED << messages, user_input, selected, trigger, route, pair,
                    browse_view, chat_view, llm_called, llm_arg, crashed >>

SpecCompare == InitCompare /\ [][CallCompare]_vars


----------------------------------------------------------------------------
(* Properties of the session (specification Spec).                         *)

\* C1 (as claimed): every submission of a text that is not a compare command
\* extends the history by exactly two messages, the user message with the text
\* as typed and then the chat model's reply, and the chat model is called with
\* the prior history plus that user message.
C1_SubmissionAppendsUserThenReply ==
    [][ (trigger' = "submit" /\ user_input' # user_input /\ route' = "question")
        => /\ Len(messages') = Len(messages) + 2
           /\ SubSeq(messages', 1, Len(messages)) = messages
           /\ messages'[Len(messages) + 1] = HumanMessage(user_input')
           /\ messages'[Len(messages) + 2].role = "assistant"
           /\ messages'[Len(messages) + 2].content \in Replies
           /\ llm_called'
           /\ llm_arg' = Append(messages, HumanMessage(user_input')) ]_vars

\* C2: a run routed as a compare command (a comparison table, a warning from
\* compare_items, or the usage warning) leaves the history as it was and does
\* not call the chat model.
C2_CompareLeavesHistory ==
    [][ route' \in { "compare", "usage" }
        => (messages' = messages /\ llm_called' = FALSE /\ crashed' = FALSE) ]_vars

C2_Witness ==
    /\ trigger = "submit"
    /\ route = "compare"
    /\ shown.kind = "table"
    /\ Len(messages) >= 3
    /\ llm_called = FALSE

\* C9 (as claimed): whenever the session awaits input the history is the
\* system message followed by (user, assistant) pairs, also after a run whose
\* chat-model call raised.
C9_HistoryIsSystemThenPairs ==
    /\ messages[1] = SystemMessage(system_prompt)
    /\ Len(messages) % 2 = 1
    /\ \A i \in 2..Len(messages) :
          messages[i].role = (IF i % 2 = 0 THEN "user" ELSE "assistant")

\* C10 (as claimed): a run triggered by a change of the browse selection calls
\* no chat model and leaves the history unchanged, whatever the text input holds.
C10_SelectionChangesNothing ==
    [][ (trigger' = "select" /\ selected' # selected)
        => (messages' = messages /\ llm_called' = FALSE) ]_vars

----------------------------------------------------------------------------
(* Properties of the intent router (specification SpecRouter).             *)

\* C7 (as claimed): a text is a compare command iff, trimmed and lower-cased,
\* it begins with "compare"; only that leading word is removed; the rest is
\* split on the first " and ", else on the first " vs ", the trimmed sides go to
\* compare_items; with neither separator the usage warning is issued and
\* neither compare_items nor the chat model is called.
C7_RouterParsesLeadingWord ==
    (trigger = "submit" /\ user_input # "") =>
        LET low == str_strip(str_lower(user_input))
            rest == str_strip(SubSeq(low, Len("compare") + 1, Len(low)))
            sides == IF str_contains(rest, " and ") THEN str_split_once(rest, " and ")
                     ELSE str_split_once(rest, " vs ")
        IN  IF ~ str_startswith(low, "compare") THEN route = "question"
            ELSE IF str_contains(rest, " and ") \/ str_contains(rest, " vs ")
                 THEN /\ route = "compare"
                      /\ pair = << str_strip(sides[1]), str_strip(sides[2]) >>
                      /\ llm_called = FALSE
                 ELSE /\ route = "usage"
                      /\ shown = UsageWarning
                      /\ pair = << >>
                      /\ llm_called = FALSE

----------------------------------------------------------------------------
(* Properties of the comparator (specification SpecCompare).               *)

Called == shown # Nothing

\* The knowledge-base keys a name matches when letter case is ignored.
KeysMatching(name) == { k \in DOMAIN agri_data : str_upper(k) = str_upper(name) }

AttributeShaped(k) == "season" \in DOMAIN agri_data[k] \/ "soil" \in DOMAIN agri_data[k]

\* rows is one row per key of the union of both entries' keys, in increasing
\* order, each with both values or "N/A" where the entry lacks the key.
RowsAreSortedUnion(rows, dA, dB) ==
    LET union == (DOMAIN dA) \cup (DOMAIN dB)
    IN  /\ Len(rows) = Cardinality(union)
        /\ { rows[i].key : i \in 1..Len(rows) } = union
        /\ \A i \in 1..(Len(rows) - 1) : str_less(rows[i].key, rows[i + 1].key)
        /\ \A i \in 1..Len(rows) :
              /\ rows[i].v1 = (IF rows[i].key \in DOMAIN dA THEN dA[rows[i].key] ELSE "N/A")
              /\ rows[i].v2 = (IF rows[i].key \in DOMAIN dB THEN dB[rows[i].key] ELSE "N/A")

\* C3: for two attribute-shaped entries compare_items gives a table titled with
\* the two canonical keys and one row per key of the sorted union of their
\* attribute keys, with both values ("N/A" for an absent one); every table
\* compare_items gives has such rows.
C3_TableIsSortedUnion ==
    Called =>
        \A A \in KeysMatching(pair[1]), B \in KeysMatching(pair[2]) :
            /\ (AttributeShaped(A) /\ AttributeShaped(B))
                  => (shown.kind = "table" /\ shown.title = << A, B >>)
            /\ shown.kind = "table"
                  => RowsAreSortedUnion(shown.rows, agri_data[A], agri_data[B])

C3_Witness ==
    /\ pair = << "Wheat", "Sugarcane" >>
    /\ shown.kind = "table"
    /\ Len(shown.rows) = 7

\* C4 (as claimed): when both names resolve and an entry has neither a season
\* nor a soil, compare_items answers UnsupportedComparison and gives no table.
C4_FlatEntryIsUnsupported ==
    Called =>
        \A A \in KeysMatching(pair[1]), B \in KeysMatching(pair[2]) :
            (~ AttributeShaped(A) \/ ~ AttributeShaped(B)) => shown = UnsupportedComparison

\* C5: compare_items answers EntryNotFound, as a returned warning, exactly when
\* a name lower-cased equals no lower-cased knowledge-base key, whatever the
\* shape of the entry the other name resolves to.
C5_NotFoundIffUnknownName ==
    Called =>
        LET known(name) == \E k \in DOMAIN agri_data : str_lower(k) = str_lower(name)
        IN  /\ (shown = EntryNotFound) <=> (~ known(pair[1]) \/ ~ known(pair[2]))
            /\ crashed = FALSE

C5_Witness ==
    /\ pair = << "Wheat", "Quinoa" >>
    /\ shown = EntryNotFound

\* The labels nested in the entries that have neither a season nor a soil.
NestedLabels ==
    UNION { DOMAIN agri_data[k] : k \in { f \in DOMAIN agri_data : ~ AttributeShaped(f) } }

\* C6 (as claimed): compare("Wheat", "PM-KISAN") answers UnsupportedComparison.
C6_NestedLabelIsUnsupported ==
    (Called /\ pair = << "Wheat", "PM-KISAN" >>) => shown = UnsupportedComparison

\* C6 (amended): a name that is only a label nested inside a flat entry, as
\* PM-KISAN is, resolves to no entry: paired with any name, in any letter
\* case, it makes compare_items answer EntryNotFound.
C6_NestedLabelIsNotFound ==
    Called =>
        \A l \in NestedLabels :
            (str_upper(l) \in { str_upper(pair[1]), str_upper(pair[2]) }) => shown = EntryNotFound

C6_Witness ==
    /\ pair = << "Wheat", "PM-KISAN" >>
    /\ shown = EntryNotFound

\* C8: the result of compare_items does not depend on the letter case of the
\* names: it is the result for the upper-cased names, so all re-casings of a
\* pair agree; and the call leaves the history alone.
C8_CaseInsensitive ==
    Called =>
        /\ shown = compare_items(str_upper(pair[1]), str_upper(pair[2]))
        /\ messages = << SystemMessage(system_prompt) >>

C8_Witness ==
    /\ pair = << "wheat", "RICE" >>
    /\ shown.kind = "table"
    /\ shown.title = << "Wheat", "Rice" >>

=============================================================================
